---- MODULE Spec2Model ----
(***************************************************************************)
(* A model of the two transformation engines of the extractor:             *)
(*   - the narrative chunker, app/src/chunk_text.py (chunk_document), and  *)
(*   - the table normalizer, app/src/normalize_tables.py                   *)
(*     (extract_table_records),                                            *)
(* with the helpers of app/src/utils.py they call.                         *)
(*                                                                         *)
(* Text is modelled at the granularity the code works at.  A line of a     *)
(* page is a record that says whether it is a header/footer line, how many *)
(* whitespace-separated words it has, which subword tokens it encodes to   *)
(* ("t": a token with visible text, "w": a whitespace-only token), whether *)
(* a following line break merges into its last token, and which section    *)
(* patterns it matches.  A table cell's text is the sequence of its words. *)
(***************************************************************************)
EXTENDS Integers, Sequences, FiniteSets, TLC

\* ------------------------------------------------------------------ bounds

MaxPages == 2
MaxTarget == 3
MaxOverlap == 2
\* OVERLAP_TOKENS as the test sets it (tests/test_chunk_text.py): large enough
\* for OVERLAP_TOKENS // 5 to exceed 1 in the fallback mode.
TestOverlap == 10

PageNumbers == {1, 2}

\* ---------------------------------------------------------------- helpers

NoneVal == "None"

Max(a, b) == IF a >= b THEN a ELSE b

Min(a, b) == IF a <= b THEN a ELSE b

SetMin(S) == CHOOSE x \in S : \A y \in S : x <= y

SetMax(S) == CHOOSE x \in S : \A y \in S : x >= y

RECURSIVE Flatten(_)
Flatten(ss) == IF ss = <<>> THEN <<>> ELSE Head(ss) \o Flatten(Tail(ss))

RECURSIVE SumSeq(_)
SumSeq(s) == IF s = <<>> THEN 0 ELSE Head(s) + SumSeq(Tail(s))

\* All sequences over S of length 0..n.
SeqsUpTo(S, n) == UNION {[1..k -> S] : k \in 0..n}

\* -------------------------------------------------------- utils.py (text)

\* SECTION_PATTERNS, in dictionary (insertion) order: <<phrase, label>>, the
\* phrase being the words the regular expression asks for, in lower case.
SECTION_PATTERNS ==
    << << <<"management's", "discussion">>, "MD&A" >>,
       << <<"item", "7">>, "MD&A" >>,
       << <<"risk", "factors">>, "Risk Factors" >>,
       << <<"financial", "statements">>, "Financial Statements" >>,
       << <<"consolidated", "statements">>, "Financial Statements" >>,
       << <<"notes", "to">>, "Notes" >>,
       << <<"liquidity", "and", "capital", "resources">>, "MD&A" >>,
       << <<"results", "of", "operations">>, "MD&A" >>,
       << <<"outlook">>, "Outlook" >> >>

\* The lines a page's raw content is made of.
\*   "Page 3"            a page marker: HEADER_FOOTER_PATTERNS[0]
LinePageMark == [boiler |-> TRUE, words |-> 2, toks |-> <<"t", "w", "t">>,
                 punct |-> FALSE, hits |-> {}]
\*   "Outlook"
LineOutlook == [boiler |-> FALSE, words |-> 1, toks |-> <<"t">>,
                punct |-> FALSE, hits |-> {9}]
\*   "Item 7"            "Item", " ", "7": the space before a digit is a token
LineItem7 == [boiler |-> FALSE, words |-> 2, toks |-> <<"t", "w", "t">>,
              punct |-> FALSE, hits |-> {2}]
\*   "Risk Factors"      "Risk", " Factors"
LineRisk == [boiler |-> FALSE, words |-> 2, toks |-> <<"t", "t">>,
             punct |-> FALSE, hits |-> {3}]
\*   "Revenue."          "Revenue", "." (+ a following line break: ".\n")
LineRevenue == [boiler |-> FALSE, words |-> 1, toks |-> <<"t", "t">>,
                punct |-> TRUE, hits |-> {}]

\* The raw page contents the model draws from (each a sequence of lines).
PageContents ==
    { <<LinePageMark>>,
      <<LineOutlook>>,
      <<LineItem7, LinePageMark>>,
      <<LineRisk, LineRevenue>> }

\* remove_headers_and_footers: the lines that match no header/footer pattern.
IsContentLine(line) == ~line.boiler

remove_headers_and_footers(lines) == SelectSeq(lines, IsContentLine)

\* normalize_whitespace(" ".join(lines)): the text of the remaining lines as
\* one string; empty exactly when no line remains.
normalize_whitespace(lines) ==
    [words |-> SumSeq([i \in 1..Len(lines) |-> lines[i].words]),
     toks |-> Flatten([i \in 1..Len(lines) |-> lines[i].toks]),
     punct |-> IF lines = <<>> THEN FALSE ELSE lines[Len(lines)].punct,
     hits |-> UNION {lines[i].hits : i \in 1..Len(lines)}]

IsEmptyText(text) == text.words = 0

\* detect_section: the label of the first pattern, in order, that matches.
detect_section(text) ==
    IF text.hits = {} THEN NoneVal
    ELSE SECTION_PATTERNS[SetMin(text.hits)][2]

\* majority_vote: Counter(filtered).most_common(1): the highest count, ties
\* going to the value first met.
CountOf(s, v) == Cardinality({i \in 1..Len(s) : s[i] = v})

IsTruthy(v) == v /= NoneVal /\ v /= ""

MajorityVoteLastTie(values) ==
    LET filtered == SelectSeq(values, IsTruthy)
    IN  IF filtered = <<>> THEN NoneVal
        ELSE LET best == SetMax({CountOf(filtered, filtered[i]) : i \in 1..Len(filtered)})
                 last == SetMax({i \in 1..Len(filtered) :
                                    CountOf(filtered, filtered[i]) = best})
             IN  filtered[last]

majority_vote(values) ==
    LET filtered == SelectSeq(values, IsTruthy)
    IN  IF filtered = <<>> THEN NoneVal
        ELSE LET best == SetMax({CountOf(filtered, filtered[i]) : i \in 1..Len(filtered)})
                 first == SetMin({i \in 1..Len(filtered) :
                                     CountOf(filtered, filtered[i]) = best})
             IN  filtered[first]

\* ------------------------------------------------------------- formatting

DigitChars == <<"0", "1", "2", "3", "4", "5", "6", "7", "8", "9">>

RECURSIVE Digits(_)
Digits(n) == IF n < 10 THEN <<DigitChars[n + 1]>>
             ELSE Digits(n \div 10) \o <<DigitChars[(n % 10) + 1]>>

RECURSIVE PadLeft(_, _)
PadLeft(s, width) == IF Len(s) >= width THEN s ELSE PadLeft(<<"0">> \o s, width)

\* f"{n:03d}" for n >= 0
Fmt03d(n) == PadLeft(Digits(n), 3)

\* ------------------------------------------------------------------ state

VARIABLES
    prog,                \* which engine runs: "chunk" or "tables"
    payload,             \* the Layout Payload (immutable input)
    CHUNK_TOKEN_TARGET,  \* chunk_text.CHUNK_TOKEN_TARGET (tests patch it)
    OVERLAP_TOKENS,      \* chunk_text.OVERLAP_TOKENS (tests patch it)
    pc,                  \* position in the running function
    use_tiktoken,        \* outcome of the import at chunk_text.py:56-63
    pages,               \* prepare_pages(payload)
    doc_tokens,
    page_spans,
    cursor,
    chunk_index,
    chunks,
    windows,             \* history: the windows the loop visited
    run,                 \* 1, or 2 when the same payload is processed again
    first_ids,           \* ids the first run returned
    table_index,
    grid,
    headers,
    section_candidates,
    statement_candidates,
    table_records,
    records,
    raw_grids,           \* history: each table's grid as the cells filled it
    vote_input,          \* the candidates handed to majority_vote on its own
    vote_output          \* what majority_vote returned for them

chunkVars == <<use_tiktoken, pages, doc_tokens, page_spans, cursor,
               chunk_index, chunks, windows>>

tableVars == <<table_index, grid, headers, section_candidates,
               statement_candidates, table_records, records, raw_grids>>

inputVars == <<prog, payload, CHUNK_TOKEN_TARGET, OVERLAP_TOKENS>>

voteVars == <<vote_input, vote_output>>

vars == <<prog, payload, CHUNK_TOKEN_TARGET, OVERLAP_TOKENS, pc, use_tiktoken,
          pages, doc_tokens, page_spans, cursor, chunk_index, chunks, windows,
          run, first_ids, table_index, grid, headers, section_candidates,
          statement_candidates, table_records, records, raw_grids,
          vote_input, vote_output>>

\* ---------------------------------------------------------- chunk_text.py

SourceFile == <<"a", ".", "p", "d", "f">>

PageInputs == [pageNumber : PageNumbers, content : PageContents]

\* prepare_pages
RECURSIVE prepare_pages_from(_)
prepare_pages_from(ps) ==
    IF ps = <<>> THEN <<>>
    ELSE LET page == Head(ps)
             lines == remove_headers_and_footers(page.content)
             normalized == normalize_whitespace(lines)
         IN  IF IsEmptyText(normalized)
             THEN prepare_pages_from(Tail(ps))
             ELSE <<[pageNumber |-> page.pageNumber,
                     text |-> normalized,
                     section |-> detect_section(normalized)]>>
                  \o prepare_pages_from(Tail(ps))

prepare_pages(p) == prepare_pages_from(p.pages)

\* encoding.encode(text + "\n"): the text's tokens, then the line break as a
\* token of its own unless it merges into the last token.
Encode(text) == IF text.punct THEN text.toks ELSE Append(text.toks, "w")

\* text.split(): one token per word.
Split(text) == [i \in 1..text.words |-> "t"]

PageTokens(page, tiktoken) == IF tiktoken THEN Encode(page.text) ELSE Split(page.text)

\* chunk_text.py:65-82: the token stream and the page spans
RECURSIVE BuildSpans(_, _, _)
BuildSpans(ps, tiktoken, start) ==
    IF ps = <<>> THEN <<>>
    ELSE LET end == start + Len(PageTokens(Head(ps), tiktoken))
         IN  <<[page |-> Head(ps).pageNumber, start |-> start, end |-> end,
                section |-> Head(ps).section]>>
             \o BuildSpans(Tail(ps), tiktoken, end)

BuildTokens(ps, tiktoken) ==
    Flatten([i \in 1..Len(ps) |-> PageTokens(ps[i], tiktoken)])

\* doc_tokens[cursor:end]
Slice(tokens, from, to) == SubSeq(tokens, from + 1, to)

\* decode(slice).strip() / " ".join(slice).strip(): the slice without its
\* leading and trailing whitespace-only tokens.
RECURSIVE LStrip(_)
LStrip(s) == IF s /= <<>> /\ Head(s) = "w" THEN LStrip(Tail(s)) ELSE s

RECURSIVE RStrip(_)
RStrip(s) == IF s /= <<>> /\ s[Len(s)] = "w" THEN RStrip(SubSeq(s, 1, Len(s) - 1)) ELSE s

Content(slice) == RStrip(LStrip(slice))

\* chunk_text.py:101
OverlapsInclusive(span, from, to) == ~(span.end < from \/ span.start > to)

Overlaps(span, from, to) == ~(span.end <= from \/ span.start >= to)

OverlappingPages(spans, from, to) ==
    SelectSeq(spans, LAMBDA span : Overlaps(span, from, to))

\* chunk_text.py:106-107: <<page_start, page_end>>
PageRangeSwapped(overlapping) ==
    LET nums == {overlapping[i].page : i \in 1..Len(overlapping)}
    IN  <<SetMax(nums), SetMin(nums)>>

PageRange(overlapping) ==
    LET nums == {overlapping[i].page : i \in 1..Len(overlapping)}
    IN  <<SetMin(nums), SetMax(nums)>>

\* chunk_text.py:110
ChunkIdNoIndex(sourceFile, page_start, index) ==
    sourceFile \o <<"_", "p">> \o Fmt03d(page_start)

ChunkId(sourceFile, page_start, index) ==
    sourceFile \o <<"_", "p">> \o Fmt03d(page_start) \o <<"_", "c">> \o Fmt03d(index)

\* chunk_text.py:96-98, 103-105: a skipped window leaves chunk_index alone
SkipIndexConsumed(index) == index + 1

SkipIndex(index) == index

\* chunk_text.py:125
StepSameInBothModes(tiktoken, overlap) == overlap

Step(tiktoken, overlap) == IF tiktoken THEN overlap ELSE Max(1, overlap \div 5)

\* chunk_text.py:126
NextCursorNoProgress(from, to, step) == Max(to - step, from)

NextCursor(from, to, step) == Max(to - step, from + 1)

\* chunk_text.py:97, 104
SkipCursorPastEnd(to) == to + 1

SkipCursor(to) == to

\* Every local of both functions before its first assignment.
LocalsInit ==
    /\ use_tiktoken = FALSE
    /\ pages = <<>>
    /\ doc_tokens = <<>>
    /\ page_spans = <<>>
    /\ cursor = 0
    /\ chunk_index = 0
    /\ chunks = <<>>
    /\ windows = <<>>
    /\ run = 1
    /\ first_ids = <<>>
    /\ table_index = 0
    /\ grid = <<>>
    /\ headers = <<>>
    /\ section_candidates = <<>>
    /\ statement_candidates = <<>>
    /\ table_records = <<>>
    /\ records = <<>>
    /\ raw_grids = <<>>

\* majority_vote is not being run on its own.
VoteIdle ==
    /\ vote_input = <<>>
    /\ vote_output = NoneVal

\* Page lists whose pages are numbered 1, 2, ... in order.
NumberedPageLists ==
    { [i \in 1..Len(cs) |-> [pageNumber |-> i, content |-> cs[i]]] :
        cs \in SeqsUpTo(PageContents, MaxPages) }

ChunkInitWith(pageLists) ==
    /\ prog = "chunk"
    /\ payload \in [sourceFile : {SourceFile}, year : {"FY2024"},
                    pages : pageLists, tables : {<<>>}]
    /\ CHUNK_TOKEN_TARGET \in 1..MaxTarget
    /\ OVERLAP_TOKENS \in (0..MaxOverlap) \cup {TestOverlap}
    /\ pc = "prepare"
    /\ LocalsInit
    /\ VoteIdle

ChunkInit == ChunkInitWith(SeqsUpTo(PageInputs, MaxPages))

\* chunk_text.py:52-54
PreparePages ==
    /\ prog = "chunk"
    /\ pc = "prepare"
    /\ pages' = prepare_pages(payload)
    /\ pc' = IF pages' = <<>> THEN "done" ELSE "import"
    /\ UNCHANGED <<inputVars, voteVars, tableVars, use_tiktoken, doc_tokens, page_spans,
                   cursor, chunk_index, chunks, windows, run, first_ids>>

\* chunk_text.py:56-63: the import succeeds or the fallback is taken
ImportTokenizer ==
    /\ prog = "chunk"
    /\ pc = "import"
    /\ \E ok \in BOOLEAN : use_tiktoken' = ok
    /\ pc' = "tokenize"
    /\ UNCHANGED <<inputVars, voteVars, tableVars, pages, doc_tokens, page_spans, cursor,
                   chunk_index, chunks, windows, run, first_ids>>

\* chunk_text.py:65-86
TokenizePages ==
    /\ prog = "chunk"
    /\ pc = "tokenize"
    /\ doc_tokens' = BuildTokens(pages, use_tiktoken)
    /\ page_spans' = BuildSpans(pages, use_tiktoken, 0)
    /\ chunks' = <<>>
    /\ cursor' = 0
    /\ chunk_index' = 0
    /\ pc' = "loop"
    /\ UNCHANGED <<inputVars, voteVars, tableVars, use_tiktoken, pages, windows, run,
                   first_ids>>

\* chunk_text.py:87-128: one evaluation of the loop condition and, when it
\* holds, one iteration of the loop body.
WindowStep ==
    /\ prog = "chunk"
    /\ pc = "loop"
    /\ IF ~(cursor < Len(doc_tokens))
       THEN /\ pc' = "done"
            /\ UNCHANGED <<cursor, chunk_index, chunks, windows>>
       ELSE LET end == Min(cursor + CHUNK_TOKEN_TARGET, Len(doc_tokens))
                chunk_token_slice == Slice(doc_tokens, cursor, end)
                content == Content(chunk_token_slice)
                overlapping_pages == OverlappingPages(page_spans, cursor, end)
            IN  IF chunk_token_slice = <<>>
                THEN /\ pc' = "done"
                     /\ UNCHANGED <<cursor, chunk_index, chunks, windows>>
                ELSE IF content = <<>> \/ overlapping_pages = <<>>
                THEN /\ cursor' = SkipCursor(end)
                     /\ windows' = Append(windows, [from |-> cursor, to |-> end,
                                                    emitted |-> FALSE])
                     /\ pc' = "loop"
                     /\ chunk_index' = SkipIndex(chunk_index)
                     /\ UNCHANGED chunks
                ELSE LET page_start == PageRange(overlapping_pages)[1]
                         page_end == PageRange(overlapping_pages)[2]
                         voted == majority_vote(
                             [i \in 1..Len(overlapping_pages) |->
                                 overlapping_pages[i].section])
                         section == IF IsTruthy(voted) THEN voted ELSE "General"
                     IN  /\ chunks' = Append(chunks,
                                [id |-> ChunkId(payload.sourceFile, page_start, chunk_index),
                                 content |-> content,
                                 year |-> payload.year,
                                 section |-> section,
                                 sourceFile |-> payload.sourceFile,
                                 pageStart |-> page_start,
                                 pageEnd |-> page_end])
                         /\ chunk_index' = chunk_index + 1
                         /\ windows' = Append(windows, [from |-> cursor, to |-> end,
                                                        emitted |-> TRUE])
                         /\ IF end = Len(doc_tokens)
                            THEN /\ pc' = "done"
                                 /\ cursor' = cursor
                            ELSE /\ pc' = "loop"
                                 /\ cursor' = NextCursor(cursor, end,
                                                  Step(use_tiktoken, OVERLAP_TOKENS))
    /\ UNCHANGED <<inputVars, voteVars, tableVars, use_tiktoken, pages, doc_tokens,
                   page_spans, run, first_ids>>

ChunkNext == PreparePages \/ ImportTokenizer \/ TokenizePages \/ WindowStep

\* ------------------------------------------------------ normalize_tables.py

MaxRows == 4
MaxCols == 3
MaxTables == 2
MaxVotes == 4

\* chunk_text.py:20-21, the values of an unpatched run
DefaultTarget == 1500
DefaultOverlap == 180

\* STATEMENT_PATTERNS, in dictionary (insertion) order: <<phrase, label>>.
STATEMENT_PATTERNS ==
    << << <<"income">>, "Income" >>,
       << <<"operations">>, "Income" >>,
       << <<"balance">>, "BalanceSheet" >>,
       << <<"financial", "position">>, "BalanceSheet" >>,
       << <<"cash">>, "CashFlow" >>,
       << <<"equity">>, "Other" >>,
       << <<"notes">>, "Notes" >> >>

\* A cell's text is a sequence of pieces: words, and " " for white space that
\* normalize_whitespace removes.  The empty string "" stands, in a joined
\* text, for an empty value between two separators.

\* re.search of a phrase: its words occur next to each other.
HasPhrase(words, phrase) ==
    \E i \in 1..(Len(words) - Len(phrase) + 1) :
        \A j \in 1..Len(phrase) : words[i + j - 1] = phrase[j]

SectionHits(words) ==
    {k \in 1..Len(SECTION_PATTERNS) : HasPhrase(words, SECTION_PATTERNS[k][1])}

\* detect_section on a cell or header text
DetectSectionWords(words) == detect_section([hits |-> SectionHits(words)])

\* detect_statement_type
detect_statement_type(words) ==
    LET hits == {k \in 1..Len(STATEMENT_PATTERNS) :
                    HasPhrase(words, STATEMENT_PATTERNS[k][1])}
    IN  IF hits = {} THEN "Other" ELSE STATEMENT_PATTERNS[SetMin(hits)][2]

IsWord(piece) == piece /= " "

\* normalize_whitespace on a cell
NormalizeCell(cell) == SelectSeq(cell, IsWord)

\* (cell or "").strip() is empty
IsBlankCell(cell) == NormalizeCell(cell) = <<>>

\* slugify(word).split("_"): the alphanumeric runs of a word
SlugParts(word) ==
    CASE word = "1,000" -> <<"1", "000">>
      [] word = "12%" -> <<"12">>
      [] word = "$5" -> <<"5">>
      [] word = "management's" -> <<"management", "s">>
      [] word = "(loss)" -> <<"loss">>
      [] word = "n/a" -> <<"n", "a">>
      [] word = "--" -> <<>>
      [] OTHER -> <<word>>

\* str.capitalize
Capitalize(part) ==
    CASE part = "consolidated" -> "Consolidated"
      [] part = "statements" -> "Statements"
      [] part = "metric" -> "Metric"
      [] part = "revenue" -> "Revenue"
      [] part = "net" -> "Net"
      [] part = "income" -> "Income"
      [] part = "notes" -> "Notes"
      [] part = "to" -> "To"
      [] part = "cash" -> "Cash"
      [] part = "total" -> "Total"
      [] part = "fy2024" -> "Fy2024"
      [] part = "usd" -> "Usd"
      [] part = "loss" -> "Loss"
      [] part = "risk" -> "Risk"
      [] part = "factors" -> "Factors"
      [] part = "outlook" -> "Outlook"
      [] part = "n" -> "N"
      [] part = "a" -> "A"
      [] OTHER -> part

\* normalize_metric_label: the capitalized parts, to be read as one string
NormalizeMetricLabelNoDefault(label) ==
    LET norm == NormalizeCell(label)
        parts == Flatten([i \in 1..Len(norm) |-> SlugParts(norm[i])])
    IN  [i \in 1..Len(parts) |-> Capitalize(parts[i])]

normalize_metric_label(label) ==
    LET norm == NormalizeCell(label)
        parts == Flatten([i \in 1..Len(norm) |-> SlugParts(norm[i])])
    IN  IF norm = <<>> \/ parts = <<>> THEN <<"UnknownMetric">>
        ELSE [i \in 1..Len(parts) |-> Capitalize(parts[i])]

\* float() of a word without its commas: <<>> is None
FloatOf(word) ==
    CASE word = "1,000" -> <<1000>>
      [] word = "200" -> <<200>>
      [] OTHER -> <<>>

\* safe_float
safe_float(value) ==
    LET stripped == NormalizeCell(value)
    IN  IF Len(stripped) = 1 THEN FloatOf(stripped[1]) ELSE <<>>

HasPercent(word) == word \in {"12%"}

HasDollar(word) == word \in {"$5"}

\* normalize_tables.py:115
UnitOfDollarFirst(value_raw) ==
    IF \E i \in 1..Len(value_raw) : HasDollar(value_raw[i]) THEN "$"
    ELSE IF \E i \in 1..Len(value_raw) : HasPercent(value_raw[i]) THEN "%"
    ELSE ""

UnitOf(value_raw) ==
    IF \E i \in 1..Len(value_raw) : HasPercent(value_raw[i]) THEN "%"
    ELSE IF \E i \in 1..Len(value_raw) : HasDollar(value_raw[i]) THEN "$"
    ELSE ""

\* normalize_tables.py:117
FactId(sourceFile, t, r, c) ==
    sourceFile \o <<"_", "p">> \o Fmt03d(t) \o <<"_", "r">> \o Fmt03d(r)
               \o <<"_", "c">> \o Fmt03d(c)

\* normalize_tables.py:61
EmptyGrid(row_count, column_count) ==
    [r \in 1..row_count |-> [c \in 1..column_count |-> <<>>]]

\* Every position the cell's spans cover is a position of the grid.
CellInGrid(g, cell) ==
    /\ cell.rowIndex + cell.rowSpan <= Len(g)
    /\ \A r \in (cell.rowIndex + 1)..(cell.rowIndex + cell.rowSpan) :
          cell.columnIndex + cell.columnSpan <= Len(g[r])

Covers(cell, r, c) ==
    /\ cell.rowIndex <= r /\ r < cell.rowIndex + cell.rowSpan
    /\ cell.columnIndex <= c /\ c < cell.columnIndex + cell.columnSpan

\* normalize_tables.py:64-70 for one cell (positions are 0-based in the code)
WriteCell(g, cell) ==
    [r \in 1..Len(g) |->
        [c \in 1..Len(g[r]) |->
            IF Covers(cell, r - 1, c - 1)
            THEN IF g[r][c] /= <<>>
                 THEN g[r][c] \o <<" ">> \o cell.content
                 ELSE cell.content
            ELSE g[r][c]]]

\* normalize_tables.py:63-70: grid[row][col] raises IndexError outside the grid
RECURSIVE FillGrid(_, _)
FillGrid(cells, g) ==
    IF cells = <<>> THEN [ok |-> TRUE, grid |-> g]
    ELSE IF ~CellInGrid(g, Head(cells)) THEN [ok |-> FALSE, grid |-> g]
    ELSE FillGrid(Tail(cells), WriteCell(g, Head(cells)))

RowIsBlank(row) == \A c \in 1..Len(row) : IsBlankCell(row[c])

\* normalize_tables.py:72-76
CleanRows(g) ==
    LET kept == SelectSeq(g, LAMBDA row : ~RowIsBlank(row))
    IN  [r \in 1..Len(kept) |-> [c \in 1..Len(kept[r]) |-> NormalizeCell(kept[r][c])]]

\* normalize_tables.py:81-85 (1-based column indexes, in order)
NonEmptyColumnsFirstRow(g) ==
    SelectSeq([i \in 1..Len(g[1]) |-> i], LAMBDA idx : ~IsBlankCell(g[1][idx]))

NonEmptyColumns(g) ==
    SelectSeq([i \in 1..Len(g[1]) |-> i],
              LAMBDA idx : \E r \in 1..Len(g) : ~IsBlankCell(g[r][idx]))

\* normalize_tables.py:86
KeepColumns(g, cols) ==
    [r \in 1..Len(g) |-> [k \in 1..Len(cols) |-> g[r][cols[k]]]]

ColumnNames == <<"Column0", "Column1", "Column2", "Column3", "Column4", "Column5">>

\* normalize_tables.py:88-93
BuildHeaderList(g) ==
    LET header_rows == Min(2, Len(g))
    IN  [col \in 1..Len(g[1]) |->
            LET header_values == [r \in 1..header_rows |-> g[r][col]]
                header == NormalizeCell(Flatten(header_values))
            IN  IF header /= <<>> THEN header ELSE <<ColumnNames[col]>>]

\* normalize_tables.py:88, 95
DataRowsOneHeader(g) == SubSeq(g, Min(1, Len(g)) + 1, Len(g))

DataRows(g) == SubSeq(g, Min(2, Len(g)) + 1, Len(g))

\* row_dict = {header: row[col_idx] ...}: a later column with the same header
\* takes the key over.  DictIndex is the (1-based) column whose value the key
\* holds.
DictIndex(hs, key) == SetMax({i \in 1..Len(hs) : hs[i] = key})

DictGet(hs, row, key) == row[DictIndex(hs, key)]

\* row_dict.values(): one value per distinct key, in the order the keys were
\* first inserted.
DictValues(hs, row) ==
    LET firsts == SelectSeq([i \in 1..Len(hs) |-> i],
                            LAMBDA i : \A j \in 1..(i - 1) : hs[j] /= hs[i])
    IN  [k \in 1..Len(firsts) |-> DictGet(hs, row, hs[firsts[k]])]

\* " ".join(values): an empty value leaves two separators next to each other
JoinValues(values) ==
    Flatten([i \in 1..Len(values) |->
                IF values[i] = <<>> THEN <<"">> ELSE values[i]])

\* enumerate(headers[1:], start=1): the col_idx values of the inner loop
ValueColumnsFromZero(hs) == [k \in 1..Len(hs) |-> k - 1]

ValueColumns(hs) == [k \in 1..(Len(hs) - 1) |-> k]

OrElse(a, b) == IF IsTruthy(a) THEN a ELSE b

\* (table.get("boundingRegions") or [{}])[0].get("pageNumber"): <<>> is None
PageOf(table) ==
    IF table.boundingRegions = <<>> THEN <<>>
    ELSE <<table.boundingRegions[1].pageNumber>>

\* normalize_tables.py:105-127 for one data row.  The fields table, row, col,
\* value_col and metric_col are history: the indexes the record was built
\* from (0-based, as in the code); metric_text, value_text and header_text
\* are history too: metric_raw, value_raw and col as the code read them.
RowRecords(p, table, t, hs, row, row_idx) ==
    LET metric_column == hs[1]
        metric_raw == NormalizeCell(DictGet(hs, row, metric_column))
        metric == normalize_metric_label(metric_raw)
        statement_text == JoinValues(DictValues(hs, row))
        cols == ValueColumns(hs)
    IN  [k \in 1..Len(cols) |->
            LET col_idx == cols[k]
                col == hs[col_idx + 1]
                value_raw == DictGet(hs, row, col)
            IN  [id |-> FactId(p.sourceFile, t, row_idx, col_idx),
                 year |-> p.year,
                 statementType |-> detect_statement_type(
                     IF metric_raw /= <<>> THEN metric_raw ELSE statement_text),
                 section |-> OrElse(DetectSectionWords(metric_raw),
                                    OrElse(DetectSectionWords(col), NoneVal)),
                 metric |-> metric,
                 value |-> safe_float(value_raw),
                 unit |-> UnitOf(value_raw),
                 sourceFile |-> p.sourceFile,
                 page |-> PageOf(table),
                 table |-> t,
                 row |-> row_idx,
                 col |-> col_idx,
                 value_col |-> DictIndex(hs, col) - 1,
                 metric_col |-> DictIndex(hs, metric_column) - 1,
                 metric_text |-> metric_raw,
                 value_text |-> value_raw,
                 header_text |-> col]]

StatementText(hs, row) == JoinValues(DictValues(hs, row))

\* normalize_tables.py:132-134
BackfilledTableFirst(record, dominant_section, dominant_statement) ==
    [record EXCEPT
        !.section = OrElse(dominant_section,
                           OrElse(record.section, "Financial Statements")),
        !.statementType = OrElse(dominant_statement, record.statementType)]

Backfilled(record, dominant_section, dominant_statement) ==
    [record EXCEPT
        !.section = OrElse(record.section,
                           OrElse(dominant_section, "Financial Statements")),
        !.statementType = OrElse(dominant_statement, record.statementType)]

\* ---- the tables the model draws from

\* The text of the cell at (r, c) of a statement table (0-based).
TemplateText(r, c) ==
    IF c = 0
    THEN CASE r = 0 -> <<"consolidated", "statements">>
           [] r = 1 -> <<"metric">>
           [] r = 2 -> <<"revenue">>
           [] r = 3 -> <<"net", "income">>
           [] r = 4 -> <<"notes", "to">>
           [] OTHER -> <<"cash">>
    ELSE IF c = 1
    THEN CASE r = 0 -> <<"fy2024">>
           [] r = 1 -> <<"usd">>
           [] r = 2 -> <<"1,000">>
           [] r = 3 -> <<"200">>
           [] OTHER -> <<"12%">>
    ELSE CASE r = 0 -> <<"fy2024">>
           [] r = 1 -> <<"usd">>
           [] r = 2 -> <<"$5">>
           [] r = 3 -> <<"12%">>
           [] OTHER -> <<"200">>

\* The cells, in row-major order, of the rows and columns that have text;
\* the cell at `hole` holds white space only.
RECURSIVE DenseCells(_, _, _, _, _, _)
DenseCells(k, R, C, rowsOn, colsOn, hole) ==
    IF k >= R * C THEN <<>>
    ELSE LET r == k \div C
             c == k % C
         IN  (IF r \in rowsOn /\ c \in colsOn
              THEN <<[rowIndex |-> r, columnIndex |-> c, rowSpan |-> 1,
                      columnSpan |-> 1,
                      content |-> IF <<r, c>> = hole THEN <<" ">>
                                  ELSE TemplateText(r, c)]>>
              ELSE <<>>)
             \o DenseCells(k + 1, R, C, rowsOn, colsOn, hole)

\* A merged title cell over the first two rows and columns.
MergedCell(R, C) ==
    [rowIndex |-> 0, columnIndex |-> 0, rowSpan |-> Min(2, R),
     columnSpan |-> Min(2, C), content |-> <<"total">>]

GenTable(R, C, rowsOn, colsOn, hole, merged) ==
    [rowCount |-> R, columnCount |-> C,
     cells |-> (IF merged THEN <<MergedCell(R, C)>> ELSE <<>>)
               \o DenseCells(0, R, C, rowsOn, colsOn, hole),
     boundingRegions |-> <<[pageNumber |-> 12]>>]

\* Tables all of whose cells lie inside the declared grid.
TableInputs ==
    UNION {
      UNION {
        { GenTable(R, C, rowsOn, colsOn, hole, merged) :
            rowsOn \in SUBSET (0..(R - 1)), colsOn \in SUBSET (0..(C - 1)),
            hole \in {<<r, c>> \in (0..(R - 1)) \X (0..(C - 1)) : r = c} \cup {<<-1, -1>>},
            merged \in IF R >= 1 /\ C >= 1 THEN BOOLEAN ELSE {FALSE} }
        : C \in 0..MaxCols }
      : R \in 0..MaxRows }

TablePayloads(inputs) ==
    { [sourceFile |-> SourceFile, year |-> "FY2024", pages |-> <<>>,
       tables |-> [i \in 1..n |-> t]] : n \in 1..MaxTables, t \in inputs }

TableInit ==
    /\ prog = "tables"
    /\ payload \in TablePayloads(TableInputs)
    /\ CHUNK_TOKEN_TARGET = DefaultTarget
    /\ OVERLAP_TOKENS = DefaultOverlap
    /\ pc = "table"
    /\ LocalsInit
    /\ VoteIdle

\* ---- statement tables with varied texts

\* First-column texts of a data row: "Revenue", "Net income (loss)", "--",
\* white space only, "Risk factors", "Cash".
MetricLabels ==
    { <<"revenue">>, <<"net", "income", "(loss)">>, <<"--">>, <<" ">>,
      <<"risk", "factors">>, <<"cash">> }

\* Texts of a value cell: "1,000", "12%", "$5", "$5 12%", "n/a", white space
\* only, "cash".
ValueTexts ==
    { <<"1,000">>, <<"12%">>, <<"$5">>, <<"$5", "12%">>, <<"n/a">>, <<" ">>,
      <<"cash">> }

\* How the two header rows are filled:
\*   "plain"    every column has its own header text
\*   "dup"      all value columns have the same header text
\*   "title"    one merged title cell spans both header rows and all columns
\*   "section"  the first value column's header names a section
HeaderVariants == {"plain", "dup", "title", "section"}

YearWords == <<"fy2024", "fy2023", "fy2022", "fy2021", "fy2020", "fy2019">>

\* The text of the cell at (r, c), 0-based; lr is the data row that carries
\* the chosen label and, in column 1, the chosen value.
FactText(hv, r, c, lr, label, value) ==
    IF r = 0 /\ c >= 1
    THEN CASE hv = "dup" -> <<"fy2024">>
           [] hv = "section" /\ c = 1 -> <<"outlook">>
           [] OTHER -> <<YearWords[c]>>
    ELSE IF r = lr /\ c = 0 THEN label
    ELSE IF r = lr /\ c = 1 THEN value
    ELSE TemplateText(r, c)

FactCells(R, C, hv, lr, label, value) ==
    LET first == IF hv = "title" THEN 2 ELSE 0
        dense == [k \in 1..((R - first) * C) |->
                    LET r == first + ((k - 1) \div C)
                        c == (k - 1) % C
                    IN  [rowIndex |-> r, columnIndex |-> c, rowSpan |-> 1,
                         columnSpan |-> 1,
                         content |-> FactText(hv, r, c, lr, label, value)]]
    IN  (IF hv = "title"
         THEN <<[rowIndex |-> 0, columnIndex |-> 0, rowSpan |-> 2,
                 columnSpan |-> C, content |-> <<"total">>]>>
         ELSE <<>>) \o dense

FactTable(R, C, hv, lr, label, value) ==
    [rowCount |-> R, columnCount |-> C,
     cells |-> FactCells(R, C, hv, lr, label, value),
     boundingRegions |-> <<[pageNumber |-> 12]>>]

FactInit ==
    /\ prog = "tables"
    /\ \E R \in 3..(MaxRows + 1), C \in 2..MaxCols, hv \in HeaderVariants,
          label \in MetricLabels, value \in ValueTexts :
          \E lr \in 2..(R - 1) :
             payload = [sourceFile |-> SourceFile, year |-> "FY2024",
                        pages |-> <<>>,
                        tables |-> <<FactTable(R, C, hv, lr, label, value)>>]
    /\ CHUNK_TOKEN_TARGET = DefaultTarget
    /\ OVERLAP_TOKENS = DefaultOverlap
    /\ pc = "table"
    /\ LocalsInit
    /\ VoteIdle

\* ---- extract_table_records

\* normalize_tables.py:58-70, and the return at :137 when no table is left
BuildGrid ==
    /\ prog = "tables"
    /\ pc = "table"
    /\ IF table_index >= Len(payload.tables)
       THEN /\ pc' = "done"
            /\ UNCHANGED <<grid, raw_grids>>
       ELSE LET table == payload.tables[table_index + 1]
                filled == FillGrid(table.cells,
                                   EmptyGrid(table.rowCount, table.columnCount))
            IN  IF filled.ok
                THEN /\ grid' = filled.grid
                     /\ raw_grids' = Append(raw_grids, filled.grid)
                     /\ pc' = "rows"
                ELSE /\ pc' = "error"
                     /\ UNCHANGED <<grid, raw_grids>>
    /\ UNCHANGED <<inputVars, voteVars, chunkVars, run, first_ids, table_index, headers,
                   section_candidates, statement_candidates, table_records, records>>

\* normalize_tables.py:72-78
DropBlankRows ==
    /\ prog = "tables"
    /\ pc = "rows"
    /\ grid' = CleanRows(grid)
    /\ IF grid' = <<>>
       THEN /\ table_index' = table_index + 1
            /\ pc' = "table"
       ELSE /\ table_index' = table_index
            /\ pc' = "columns"
    /\ UNCHANGED <<inputVars, voteVars, chunkVars, run, first_ids, headers, section_candidates,
                   statement_candidates, table_records, records, raw_grids>>

\* normalize_tables.py:80-86
DropBlankColumns ==
    /\ prog = "tables"
    /\ pc = "columns"
    /\ grid' = KeepColumns(grid, NonEmptyColumns(grid))
    /\ pc' = "headers"
    /\ UNCHANGED <<inputVars, voteVars, chunkVars, run, first_ids, table_index, headers,
                   section_candidates, statement_candidates, table_records, records,
                   raw_grids>>

\* normalize_tables.py:88-102
BuildHeaders ==
    /\ prog = "tables"
    /\ pc = "headers"
    /\ headers' = BuildHeaderList(grid)
    /\ table_records' = <<>>
    /\ section_candidates' = <<>>
    /\ statement_candidates' = <<>>
    /\ IF DataRows(grid) = <<>>
       THEN /\ table_index' = table_index + 1
            /\ pc' = "table"
       ELSE /\ table_index' = table_index
            /\ pc' = "data"
    /\ UNCHANGED <<inputVars, voteVars, chunkVars, run, first_ids, grid, records, raw_grids>>

\* normalize_tables.py:104-127
ExtractRows ==
    /\ prog = "tables"
    /\ pc = "data"
    /\ LET data_rows == DataRows(grid)
           table == payload.tables[table_index + 1]
       IN  /\ table_records' =
                Flatten([i \in 1..Len(data_rows) |->
                    RowRecords(payload, table, table_index, headers,
                               data_rows[i], i - 1)])
           /\ statement_candidates' =
                [i \in 1..Len(data_rows) |->
                    detect_statement_type(StatementText(headers, data_rows[i]))]
           /\ section_candidates' =
                [i \in 1..Len(data_rows) |->
                    DetectSectionWords(StatementText(headers, data_rows[i]))]
    /\ pc' = "backfill"
    /\ UNCHANGED <<inputVars, voteVars, chunkVars, run, first_ids, table_index, grid, headers,
                   records, raw_grids>>

\* normalize_tables.py:129-135
Backfill ==
    /\ prog = "tables"
    /\ pc = "backfill"
    /\ IF table_records /= <<>>
       THEN LET dominant_section == majority_vote(section_candidates)
                dominant_statement == majority_vote(statement_candidates)
            IN  records' = records \o
                    [i \in 1..Len(table_records) |->
                        Backfilled(table_records[i], dominant_section,
                                   dominant_statement)]
       ELSE records' = records
    /\ table_index' = table_index + 1
    /\ pc' = "table"
    /\ UNCHANGED <<inputVars, voteVars, chunkVars, run, first_ids, grid, headers,
                   section_candidates, statement_candidates, table_records, raw_grids>>

TableNext ==
    BuildGrid \/ DropBlankRows \/ DropBlankColumns \/ BuildHeaders \/ ExtractRows
        \/ Backfill

\* ---- a second run on the same payload

\* What the function returned: the ids, in order.
OutputIds ==
    IF prog = "chunk" THEN [k \in 1..Len(chunks) |-> chunks[k].id]
    ELSE [k \in 1..Len(records) |-> records[k].id]

\* The caller runs the function again on the payload it still holds.
Rerun ==
    /\ pc = "done"
    /\ run = 1
    /\ run' = 2
    /\ first_ids' = OutputIds
    /\ pc' = IF prog = "chunk" THEN "prepare" ELSE "table"
    /\ use_tiktoken' = FALSE
    /\ pages' = <<>>
    /\ doc_tokens' = <<>>
    /\ page_spans' = <<>>
    /\ cursor' = 0
    /\ chunk_index' = 0
    /\ chunks' = <<>>
    /\ windows' = <<>>
    /\ table_index' = 0
    /\ grid' = <<>>
    /\ headers' = <<>>
    /\ section_candidates' = <<>>
    /\ statement_candidates' = <<>>
    /\ table_records' = <<>>
    /\ records' = <<>>
    /\ raw_grids' = <<>>
    /\ UNCHANGED <<inputVars, voteVars>>

\* ---- tables whose cells may lie outside the declared grid

StrayCells ==
    [rowIndex : 0..(MaxRows - 1), columnIndex : 0..(MaxCols - 1),
     rowSpan : 1..3, columnSpan : 1..2, content : {<<"cash">>, <<" ">>}]

MalformedTables ==
    { [rowCount |-> R, columnCount |-> C, cells |-> cells,
       boundingRegions |-> <<[pageNumber |-> 12]>>] :
        R \in 0..(MaxRows - 1), C \in 0..(MaxCols - 1),
        cells \in SeqsUpTo(StrayCells, 1) }

MalformedInit ==
    /\ prog = "tables"
    /\ payload \in TablePayloads(MalformedTables)
    /\ CHUNK_TOKEN_TARGET = DefaultTarget
    /\ OVERLAP_TOKENS = DefaultOverlap
    /\ pc = "table"
    /\ LocalsInit
    /\ VoteIdle

\* ---- majority_vote on its own, and in the chunker

\* Candidates: None, the empty string, and three labels.
VoteValues == {NoneVal, "", "MD&A", "Notes", "Outlook"}

VoteInit ==
    /\ prog = "vote"
    /\ payload = [sourceFile |-> SourceFile, year |-> "FY2024", pages |-> <<>>,
                  tables |-> <<>>]
    /\ CHUNK_TOKEN_TARGET = DefaultTarget
    /\ OVERLAP_TOKENS = DefaultOverlap
    /\ pc = "vote"
    /\ LocalsInit
    /\ vote_input \in SeqsUpTo(VoteValues, MaxVotes)
    /\ vote_output = NoneVal

\* utils.py:132-137
Vote ==
    /\ prog = "vote"
    /\ pc = "vote"
    /\ vote_output' = majority_vote(vote_input)
    /\ pc' = "done"
    /\ UNCHANGED <<inputVars, chunkVars, tableVars, run, first_ids, vote_input>>

\* Pages with and without a section, numbered 1, 2, ... in order.
VotePageLists ==
    { [i \in 1..Len(cs) |-> [pageNumber |-> i, content |-> cs[i]]] :
        cs \in SeqsUpTo({<<LineRevenue>>, <<LineOutlook>>, <<LineRisk, LineRevenue>>},
                        MaxPages) }

\* ---------------------------------------------------------- specifications

Init == ChunkInit \/ TableInit

Next == ChunkNext \/ TableNext

Spec == Init /\ [][Next]_vars

\* The chunker alone, as a process that keeps taking steps until it returns;
\* the pages are numbered by their position, which the loop's control flow
\* never reads.
LiveInit == ChunkInitWith(NumberedPageLists)

LiveSpec == LiveInit /\ [][ChunkNext]_vars /\ WF_vars(ChunkNext)

RerunNext == Next \/ Rerun

RerunSpec == Init /\ [][RerunNext]_vars

MalformedSpec == MalformedInit /\ [][TableNext]_vars

\* majority_vote on candidate lists, and chunk_document on pages some of
\* which carry no section
VoteSpec == (VoteInit \/ ChunkInitWith(VotePageLists)) /\ [][Vote \/ ChunkNext]_vars

\* extract_table_records on statement tables with varied texts
FactSpec == FactInit /\ [][TableNext]_vars

\* ------------------------------------------------------------------ claims

InputPageNumbers == {payload.pages[i].pageNumber : i \in 1..Len(payload.pages)}

\* C1: every chunk has pageStart <= pageEnd, and both lie between the
\* smallest and the largest pageNumber of the payload's input pages.
C1_PageRangeWithinInput ==
    \A k \in 1..Len(chunks) :
        /\ chunks[k].pageStart <= chunks[k].pageEnd
        /\ SetMin(InputPageNumbers) <= chunks[k].pageStart
        /\ chunks[k].pageEnd <= SetMax(InputPageNumbers)

\* A chunk that spans two pages, the later of which has the smaller number.
C1_Witness ==
    /\ pc = "done"
    /\ Len(payload.pages) >= 2
    /\ payload.pages[1].pageNumber > payload.pages[2].pageNumber
    /\ \E k \in 1..Len(chunks) : chunks[k].pageStart < chunks[k].pageEnd

\* The input pages that survive cleaning, and the token span each of them
\* contributes, computed from the payload.
CleanedText(page) == normalize_whitespace(remove_headers_and_footers(page.content))

KeptPages == {i \in 1..Len(payload.pages) : ~IsEmptyText(CleanedText(payload.pages[i]))}

TokenCount(i) ==
    IF i \notin KeptPages THEN 0
    ELSE IF use_tiktoken THEN Len(Encode(CleanedText(payload.pages[i])))
    ELSE CleanedText(payload.pages[i]).words

SpanStart(i) == SumSeq([j \in 1..(i - 1) |-> TokenCount(j)])

PagesUnder(w) ==
    {i \in KeptPages : SpanStart(i) < w.to /\ SpanStart(i) + TokenCount(i) > w.from}

EmittedWindows == SelectSeq(windows, LAMBDA w : w.emitted)

\* C2: a chunk's pageStart and pageEnd are the minimum and the maximum page
\* number among the prepared pages whose token span overlaps the chunk's
\* window; dropped pages supply neither; the first chunk's range includes the
\* first prepared page.
C2_PageRangeIsOverlapMinMax ==
    /\ Len(EmittedWindows) = Len(chunks)
    /\ \A k \in 1..Len(chunks) :
          LET under == PagesUnder(EmittedWindows[k])
              nums == {payload.pages[i].pageNumber : i \in under}
          IN  /\ under /= {}
              /\ chunks[k].pageStart = SetMin(nums)
              /\ chunks[k].pageEnd = SetMax(nums)
    /\ chunks /= <<>> =>
          LET first == payload.pages[SetMin(KeptPages)].pageNumber
          IN  chunks[1].pageStart <= first /\ first <= chunks[1].pageEnd

\* A dropped page carries the smallest page number of the payload, and
\* chunks were emitted from the page that follows it.
C2_Witness ==
    /\ pc = "done"
    /\ Len(chunks) >= 2
    /\ \E i \in 1..Len(payload.pages) :
          /\ i \notin KeptPages
          /\ payload.pages[i].pageNumber < chunks[1].pageStart

InWindow(i, w) == w.from <= i /\ i < w.to

HasText(w) == Content(Slice(doc_tokens, w.from, w.to)) /= <<>>

\* C3: no token of the stream is omitted: consecutive windows leave no gap,
\* every token lies in a visited window once the loop has ended, and every
\* token of a window with visible text lies in the window of an emitted chunk.
C3_NoTokenOmitted ==
    /\ windows /= <<>> => windows[1].from = 0
    /\ \A k \in 2..Len(windows) : windows[k].from <= windows[k - 1].to
    /\ Len(EmittedWindows) = Len(chunks)
    /\ (prog = "chunk" /\ pc = "done") =>
          \A i \in 0..(Len(doc_tokens) - 1) :
              /\ \E k \in 1..Len(windows) : InWindow(i, windows[k])
              /\ (\E k \in 1..Len(windows) :
                      InWindow(i, windows[k]) /\ HasText(windows[k]))
                    => \E k \in 1..Len(windows) :
                          InWindow(i, windows[k]) /\ windows[k].emitted

\* A run that skipped a whitespace-only window between two emitted chunks.
C3_Witness ==
    /\ pc = "done"
    /\ \E k \in 2..(Len(windows) - 1) :
          /\ ~windows[k].emitted
          /\ windows[k - 1].emitted
          /\ windows[k + 1].emitted

\* C4: every iteration of the windowing loop moves the cursor forward by at
\* least one token or ends the loop, the chunks never outnumber the tokens,
\* and the loop ends, for every target >= 1 and overlap >= 0 in both modes.
C4_ForwardProgress ==
    /\ [][pc = "loop" => (cursor' > cursor \/ pc' = "done")]_vars
    /\ [](Len(chunks) <= Len(doc_tokens))
    /\ <>(pc = "done")

\* The loop went on after a chunk whose window is no longer than the overlap.
C4_Witness ==
    /\ pc = "loop"
    /\ windows /= <<>>
    /\ LET w == windows[Len(windows)]
       IN  /\ w.emitted
           /\ Step(use_tiktoken, OVERLAP_TOKENS) >= w.to - w.from
           /\ cursor = w.from + 1

\* C5: the chunk ids of one chunk_document call are pairwise distinct, and
\* so are the fact ids of one extract_table_records call.
C5_IdsPairwiseDistinct ==
    /\ \A i, j \in 1..Len(chunks) : i /= j => chunks[i].id /= chunks[j].id
    /\ \A i, j \in 1..Len(records) : i /= j => records[i].id /= records[j].id

\* Three chunks that start on the same page.
C5_Witness ==
    /\ pc = "done"
    /\ Len(chunks) >= 3
    /\ \A k \in 1..Len(chunks) : chunks[k].pageStart = chunks[1].pageStart

\* C6: a second run on the unchanged payload returns the same ids in the
\* same order as the first run.
C6_RerunSameIds == (run = 2 /\ pc = "done") => OutputIds = first_ids

\* The rows and columns of a raw grid that hold text.
TextRows(g) == {r \in 1..Len(g) : ~RowIsBlank(g[r])}

TextCols(g) ==
    IF g = <<>> THEN {}
    ELSE {c \in 1..Len(g[1]) : \E r \in 1..Len(g) : ~IsBlankCell(g[r][c])}

RecordsOfTable(t) == {i \in 1..Len(records) : records[i].table = t}

\* C7: a table whose cleaned grid has R rows and C columns contributes one
\* fact per (data row, non-first column): (R - 2) * (C - 1) facts when R >= 3,
\* none when R <= 2.
C7_FactsPerTable ==
    \A t \in 0..(table_index - 1) :
        LET R == Cardinality(TextRows(raw_grids[t + 1]))
            C == Cardinality(TextCols(raw_grids[t + 1]))
            facts == RecordsOfTable(t)
        IN  /\ Cardinality(facts) = IF R >= 3 THEN (R - 2) * (C - 1) ELSE 0
            /\ {<<records[i].row, records[i].col>> : i \in facts}
                  = (0..(R - 3)) \X (1..(C - 1))

\* A finished table with two data rows and two value columns.
C7_Witness ==
    /\ pc = "done"
    /\ Cardinality(RecordsOfTable(0)) = 4

\* C8: no fact uses the metric column as a value column: its column index is
\* at least 1 and its value was not read from the first column of the grid.
C8_MetricColumnNeverValue ==
    /\ \A i \in 1..Len(table_records) :
          table_records[i].col >= 1 /\ table_records[i].value_col >= 1
    /\ \A i \in 1..Len(records) :
          records[i].col >= 1 /\ records[i].value_col >= 1

\* Facts were built from a table in which another column has the first
\* column's header text.
C8_Witness ==
    /\ pc = "backfill"
    /\ table_records /= <<>>
    /\ \E j \in 2..Len(headers) : headers[j] = headers[1]

\* C9: the cleaned grid is rectangular, has no blank row and no blank
\* column, and has as many columns as the raw grid has columns with text;
\* dropping the blank rows changes no column's blankness.
C9_CleanedGridShape ==
    /\ (prog = "tables" /\ pc = "columns") =>
          TextCols(grid) = TextCols(raw_grids[Len(raw_grids)])
    /\ (prog = "tables" /\ pc \in {"headers", "data", "backfill"}) =>
          /\ grid /= <<>>
          /\ \A r \in 1..Len(grid) : Len(grid[r]) = Len(grid[1])
          /\ TextRows(grid) = 1..Len(grid)
          /\ TextCols(grid) = 1..Len(grid[1])
          /\ Len(grid[1]) = Cardinality(TextCols(raw_grids[Len(raw_grids)]))

\* Cleaning removed both a row and a column and left at least two rows.
C9_Witness ==
    /\ pc = "headers"
    /\ Len(grid) >= 2
    /\ Len(grid) < Len(raw_grids[Len(raw_grids)])
    /\ Len(grid[1]) < Len(raw_grids[Len(raw_grids)][1])

\* C10: extract_table_records never ends in an error, also for a table with
\* a cell outside the declared grid.
C10_NeverRaises == pc /= "error"

\* Every fact built so far: those of finished tables and those of the table
\* in progress.
AllFacts == {records[i] : i \in 1..Len(records)}
                \cup {table_records[i] : i \in 1..Len(table_records)}

\* The label text has no letter and no digit (it may be empty).
NoAlphanumeric(text) == \A i \in 1..Len(text) : text[i] \in {" ", "--"}

\* C11 (as amended): the metric is the label's alphanumeric runs, each
\* capitalized, concatenated: "Net income (loss)" gives "NetIncomeLoss" and
\* "Revenue" gives "Revenue"; a label that is empty or has no alphanumeric
\* character gives "UnknownMetric"; the metric of a fact is never empty.
C11_MetricLabelKeepsEveryPart ==
    \A f \in AllFacts :
        /\ f.metric /= <<>>
        /\ \A i \in 1..Len(f.metric) : f.metric[i] /= ""
        /\ f.metric_text = <<"net", "income", "(loss)">>
              => f.metric = <<"Net", "Income", "Loss">>
        /\ f.metric_text = <<"revenue">> => f.metric = <<"Revenue">>
        /\ NoAlphanumeric(f.metric_text) <=> f.metric = <<"UnknownMetric">>

\* C11 (as claimed): the label "Net income (loss)" gives the metric
\* "NetIncome".
C11_NetIncomeLossGivesNetIncome ==
    \A f \in AllFacts :
        f.metric_text = <<"net", "income", "(loss)">>
            => f.metric = <<"Net", "Income">>

\* A finished run with a fact labelled from "Net income (loss)".
C11_Witness ==
    /\ pc = "done"
    /\ \E i \in 1..Len(records) :
          /\ records[i].metric_text = <<"net", "income", "(loss)">>
          /\ records[i].metric = <<"Net", "Income", "Loss">>

\* The grid of a table after its blank rows and blank columns are dropped,
\* computed from the grid its cells filled.
CleanedGridOf(raw) ==
    LET rows == CleanRows(raw)
    IN  IF rows = <<>> THEN <<>> ELSE KeepColumns(rows, NonEmptyColumns(rows))

\* The data row of the cleaned grid a fact was emitted for.
DataRowOf(f) == DataRows(CleanedGridOf(raw_grids[f.table + 1]))[f.row + 1]

\* C12: the fact emitted for (row, j) takes its metric from the row's cell in
\* the first column and its value and unit from the row's cell in column j,
\* also when columns share their header text.
C12_FactReadsOwnCells ==
    \A i \in 1..Len(records) :
        LET f == records[i]
            row == DataRowOf(f)
        IN  /\ f.metric = normalize_metric_label(row[1])
            /\ f.value = safe_float(row[f.col + 1])
            /\ f.unit = UnitOf(row[f.col + 1])

\* The candidate with the most occurrences among the non-null, non-empty
\* ones, the earliest such candidate when several have that many; null when
\* there is none.
MostFrequentFirst(values) ==
    LET idx == {i \in 1..Len(values) : values[i] /= NoneVal /\ values[i] /= ""}
        n(i) == Cardinality({j \in idx : values[j] = values[i]})
    IN  IF idx = {} THEN NoneVal
        ELSE values[CHOOSE i \in idx :
                        /\ \A j \in idx : n(j) <= n(i)
                        /\ \A j \in idx : j < i => n(j) < n(i)]

\* The statement type of each data row of a table, classified from the
\* row's cell values joined by white space.
RowStatementTypes(t) ==
    LET rows == DataRows(CleanedGridOf(raw_grids[t + 1]))
    IN  [k \in 1..Len(rows) |-> detect_statement_type(JoinValues(rows[k]))]

\* C13: after the backfill every fact of a table carries the majority vote
\* over the statement types of the table's data rows, each row classified
\* from its white-space-joined cell values; all facts of a table agree.
C13_StatementTypeIsRowMajority ==
    \A i \in 1..Len(records) :
        /\ records[i].statementType
              = MostFrequentFirst(RowStatementTypes(records[i].table))
        /\ \A j \in 1..Len(records) :
              records[j].table = records[i].table
                  => records[j].statementType = records[i].statementType

\* The section the rules give a fact on its own: tried on the metric text,
\* then on the header text of the fact's column.
OwnSection(f) ==
    IF DetectSectionWords(f.metric_text) /= NoneVal
    THEN DetectSectionWords(f.metric_text)
    ELSE DetectSectionWords(f.header_text)

\* The section a fact ends with, given the table's per-row candidates.
FinalSection(f, candidates) ==
    IF OwnSection(f) /= NoneVal THEN OwnSection(f)
    ELSE IF MostFrequentFirst(candidates) /= NoneVal
    THEN MostFrequentFirst(candidates)
    ELSE "Financial Statements"

\* C14: the section of every emitted fact is never null; the backfill gives
\* each fact of the table its own section when the rules matched the metric
\* text or the header text, otherwise the majority vote over the table's
\* per-row candidates, otherwise "Financial Statements".
C14_SectionNeverNull ==
    /\ [](\A i \in 1..Len(records) : /\ records[i].section /= NoneVal
                                      /\ records[i].section /= "")
    /\ [](\A i \in 1..Len(table_records) :
            pc = "backfill" => table_records[i].section = OwnSection(table_records[i]))
    /\ [][pc = "backfill" =>
            /\ Len(records') = Len(records) + Len(table_records)
            /\ \A i \in 1..Len(table_records) :
                  LET f == records'[Len(records) + i]
                  IN  /\ f.id = table_records[i].id
                      /\ f.section = FinalSection(table_records[i], section_candidates)
                      /\ OwnSection(table_records[i]) /= NoneVal
                            => f.section = OwnSection(table_records[i])]_vars

\* In one data row of a finished table, one fact kept the section its
\* column header names and another took the table's majority section.
C14_Witness ==
    /\ pc = "done"
    /\ \E i, j \in 1..Len(records) :
          /\ records[i].row = records[j].row
          /\ records[i].section = "Outlook"
          /\ records[j].section = "Risk Factors"

\* The candidates that count: neither null nor empty.
Counted(values) == {i \in 1..Len(values) : values[i] /= NoneVal /\ values[i] /= ""}

Occurrences(values, v) == Cardinality({i \in 1..Len(values) : values[i] = v})

FirstIndex(values, v) == SetMin({i \in 1..Len(values) : values[i] = v})

\* out is what the vote over values must return.
IsMajority(values, out) ==
    IF Counted(values) = {} THEN out = NoneVal
    ELSE /\ \E i \in Counted(values) : values[i] = out
         /\ \A i \in Counted(values) :
               /\ Occurrences(values, values[i]) <= Occurrences(values, out)
               /\ Occurrences(values, values[i]) = Occurrences(values, out)
                     => FirstIndex(values, out) <= FirstIndex(values, values[i])

\* The sections, in page order, of the prepared pages under a window.
SectionsUnder(w) ==
    LET under == SelectSeq([i \in 1..Len(payload.pages) |-> i],
                           LAMBDA i : i \in PagesUnder(w))
    IN  [k \in 1..Len(under) |-> detect_section(CleanedText(payload.pages[under[k]]))]

\* C15: majority_vote returns the candidate with the most occurrences among
\* the non-null, non-empty ones, the first met among those that tie, and
\* null when there is none; a chunk's section is the vote over the sections
\* of the pages under its window, and "General" when that vote is null.
C15_MajorityVote ==
    /\ (prog = "vote" /\ pc = "done") => IsMajority(vote_input, vote_output)
    /\ \A k \in 1..Len(chunks) :
          Len(EmittedWindows) = Len(chunks) =>
              LET sections == SectionsUnder(EmittedWindows[k])
              IN  IF Counted(sections) = {}
                  THEN chunks[k].section = "General"
                  ELSE IsMajority(sections, chunks[k].section)

\* The vote was taken over candidates two of which tie, with two
\* occurrences each, for the highest count.
C15_Witness ==
    /\ prog = "vote"
    /\ pc = "done"
    /\ vote_output /= NoneVal
    /\ \E i, j \in Counted(vote_input) :
          /\ vote_input[i] = vote_output
          /\ vote_input[j] /= vote_output
          /\ Occurrences(vote_input, vote_input[j]) = Occurrences(vote_input, vote_output)
          /\ Occurrences(vote_input, vote_output) = 2

\* The last three characters of an id: its zero-padded sequence index.
IdIndex(id) == SubSeq(id, Len(id) - 2, Len(id))

\* C16: a skipped window consumes no sequence number: the k-th emitted chunk
\* (counting from 0) has index k in its id, whatever was skipped before it,
\* and every emitted chunk has non-empty content.
C16_SkipKeepsNumbering ==
    /\ chunk_index = Len(chunks)
    /\ \A k \in 1..Len(chunks) :
          /\ IdIndex(chunks[k].id) = Fmt03d(k - 1)
          /\ chunks[k].id[Len(chunks[k].id) - 3] = "c"
          /\ chunks[k].content /= <<>>

\* A finished run in which the chunk emitted right after a skipped window
\* has the index that follows the previous chunk's.
C16_Witness ==
    /\ pc = "done"
    /\ Len(chunks) >= 2
    /\ ~windows[2].emitted
    /\ windows[3].emitted
    /\ IdIndex(chunks[2].id) = <<"0", "0", "1">>

\* The overlap the next window is to have with an emitted one.
ClaimedOverlap ==
    IF use_tiktoken THEN OVERLAP_TOKENS
    ELSE IF OVERLAP_TOKENS \div 5 >= 1 THEN OVERLAP_TOKENS \div 5 ELSE 1

\* The number of token positions two windows have in common.
SharedTokens(w, next) ==
    Cardinality({i \in 0..(Len(doc_tokens) - 1) : InWindow(i, w) /\ InWindow(i, next)})

\* C17: every window has length min(CHUNK_TOKEN_TARGET, remaining tokens);
\* after an emitted window [cursor, end) that does not reach the end of the
\* stream the next window starts at end - overlap whenever that is greater
\* than cursor, so that the next emitted window shares exactly overlap tokens
\* with it; a window that reaches the end of the stream is the last one.
C17_WindowLengthAndOverlap ==
    /\ \A k \in 1..Len(windows) :
          LET w == windows[k]
              remaining == Len(doc_tokens) - w.from
          IN  /\ w.to - w.from =
                    (IF CHUNK_TOKEN_TARGET <= remaining THEN CHUNK_TOKEN_TARGET
                     ELSE remaining)
              /\ w.to = Len(doc_tokens) => k = Len(windows)
              /\ (w.emitted /\ w.to < Len(doc_tokens) /\ w.to - ClaimedOverlap > w.from) =>
                    /\ (prog = "chunk" /\ pc = "loop" /\ k = Len(windows))
                          => cursor = w.to - ClaimedOverlap
                    /\ k < Len(windows) => windows[k + 1].from = w.to - ClaimedOverlap
    /\ \A k \in 1..(Len(EmittedWindows) - 1) :
          LET w == EmittedWindows[k]
              next == EmittedWindows[k + 1]
          IN  w.to - ClaimedOverlap > w.from
                  => SharedTokens(w, next) = ClaimedOverlap
    /\ (prog = "chunk" /\ pc = "done" /\ windows /= <<>>)
          => windows[Len(windows)].to = Len(doc_tokens)

\* Two emitted windows of three tokens that share two of them.
C17_Witness ==
    /\ pc = "done"
    /\ ClaimedOverlap = 2
    /\ \E k \in 1..(Len(windows) - 1) :
          /\ windows[k].emitted /\ windows[k + 1].emitted
          /\ windows[k].to - windows[k].from = 3
          /\ windows[k + 1].from = windows[k].to - 2

\* What a raw cell text reads as: <<n>> when, without its commas and its
\* surrounding white space, it is the number n; <<>> (null) otherwise.
ReadsAs(text) ==
    CASE NormalizeCell(text) = <<"1,000">> -> <<1000>>
      [] NormalizeCell(text) = <<"200">> -> <<200>>
      [] OTHER -> <<>>

ContainsPercent(text) == \E i \in 1..Len(text) : text[i] \in {"12%"}

ContainsDollar(text) == \E i \in 1..Len(text) : text[i] \in {"$5"}

\* C18: a cell that does not read as a number gives a null value and the
\* table's other facts are still emitted (one per data row and value
\* column, no error); the unit is "%" if the raw cell contains a percent
\* sign, else "$" if it contains a dollar sign, else empty; a non-empty unit
\* implies a null value.
C18_ParseFailureIsNull ==
    /\ pc /= "error"
    /\ \A f \in AllFacts :
          /\ f.value = ReadsAs(f.value_text)
          /\ f.unit = (IF ContainsPercent(f.value_text) THEN "%"
                       ELSE IF ContainsDollar(f.value_text) THEN "$"
                       ELSE "")
          /\ f.unit /= "" => f.value = <<>>
    /\ \A t \in 0..(table_index - 1) :
          LET g == CleanedGridOf(raw_grids[t + 1])
          IN  Cardinality(RecordsOfTable(t)) =
                  IF g = <<>> THEN 0
                  ELSE Len(DataRows(g)) * (Len(g[1]) - 1)

\* A finished table with a fact whose cell holds both symbols (unit "%",
\* value null) and a fact with a number.
C18_Witness ==
    /\ pc = "done"
    /\ \E i, j \in 1..Len(records) :
          /\ ContainsPercent(records[i].value_text)
          /\ ContainsDollar(records[i].value_text)
          /\ records[i].unit = "%"
          /\ records[i].value = <<>>
          /\ records[j].value = <<200>>

====
